---- MODULE Spec2Model ----
(***************************************************************************)
(* Model of estructura.py: the scaffolding script that walks a fixed table *)
(* of folders and file names, ensures each folder with os.makedirs and     *)
(* writes an empty file for each listed name with open(path, 'w').         *)
(*                                                                         *)
(* A path is the sequence of its "/"-separated segments ("src/./App.jsx"   *)
(* is <<"src", ".", "App.jsx">>); the filesystem maps each resolved path   *)
(* (no "." segments) to an entry: absent, a directory, or a regular file   *)
(* of some length.  The working directory is the empty path <<>>.          *)
(***************************************************************************)
EXTENDS Integers, Sequences, FiniteSets, TLC

\* ------------------------------------------------------------------ bounds
\* Longest content a pre-existing file may hold.
MaxLen == 1
\* Number of entries that are chosen freely in the filesystem a first run meets.
MaxSeeds == 1
\* Number of successive runs of the script.
MaxRuns == 2

\* ------------------------------------------------------------ program text
base_dir == <<"src">>

structure == <<
    [folder |-> <<"components", "auth">>,
     files  |-> <<"LoginPage.jsx", "ProtectedRoute.jsx">>],
    [folder |-> <<"components", "camas">>,
     files  |-> <<"AdminDashboard.jsx", "CamaForm.jsx", "CamaViewer.jsx",
                  "QrGenerator.jsx", "SearchBar.jsx">>],
    [folder |-> <<"components", "layout">>,
     files  |-> <<"Navbar.jsx">>],
    [folder |-> <<"firebase">>,
     files  |-> <<"config.js">>],
    [folder |-> <<"hooks">>,
     files  |-> <<"useAuth.js">>],
    [folder |-> <<"pages">>,
     files  |-> <<"AdminPage.jsx", "CamaPage.jsx", "HomePage.jsx">>],
    [folder |-> <<".">>,
     files  |-> <<"App.jsx", "main.jsx", "routes.jsx">>] >>

\* os.makedirs(..., exist_ok=True)
exist_ok == TRUE

OpenModeAppend == "a"
OpenModeExclusive == "x"
\* open(file_path, 'w')
OpenMode == "w"

\* f.write(""): the number of characters written
WriteLen == 0

\* ------------------------------------------------------------------- paths
Front(p) == SubSeq(p, 1, Len(p) - 1)
Last(p) == p[Len(p)]

\* os.path.join on segment sequences; an absolute second part (leading empty
\* segment) replaces the first.
Join(a, b) == IF b # <<>> /\ b[1] = "" THEN b ELSE a \o b

NotDot(s) == s # "."
\* What the kernel's path walk does with "." segments: they name the
\* directory reached so far.
Resolve(p) == SelectSeq(p, NotDot)

Prefixes(p) == {SubSeq(p, 1, n) : n \in 1..Len(p)}
IsProperPrefix(p, q) == Len(p) < Len(q) /\ SubSeq(q, 1, Len(p)) = p

\* ------------------------------------------------------------- filesystem
Absent == [kind |-> "absent", len |-> 0]
Dir == [kind |-> "dir", len |-> 0]
File(n) == [kind |-> "file", len |-> n]

Get(f, c) == IF c \in DOMAIN f THEN f[c] ELSE Absent
Put(f, c, e) == IF c \in DOMAIN f THEN [f EXCEPT ![c] = e] ELSE (c :> e) @@ f

\* The value of a one-element set: binds an intermediate result once.
The(S) == CHOOSE x \in S : TRUE

\* stat(p): "dir", "file", "absent" (ENOENT) or "notdir" (ENOTDIR: a non-final
\* component is a regular file).
RECURSIVE Stat(_, _)
Stat(f, p) ==
    IF p = <<>> THEN "dir"
    ELSE The({IF parent = "file" THEN "notdir"
              ELSE IF parent # "dir" THEN parent
              ELSE IF Last(p) = "." THEN "dir"
              ELSE Get(f, Resolve(p)).kind
                : parent \in {Stat(f, Front(p))}})

exists(f, p) == Stat(f, p) \in {"dir", "file"}
isdir(f, p) == Stat(f, p) = "dir"

NoPath == <<>>

\* The error a failed walk to p's parent directory gives, "" if it is a directory.
ParentError(f, p) ==
    The({IF parent = "dir" THEN ""
         ELSE IF parent = "absent" THEN "FileNotFoundError"
         ELSE "NotADirectoryError"
           : parent \in {Stat(f, Front(p))}})

\* mkdir(2) through os.mkdir.  deny is the resolved path on which the
\* environment refuses the creation in this step (NoPath: none).
mkdir(f, p, deny) ==
    The({IF perr # "" THEN [fs |-> f, err |-> perr]
         ELSE IF Last(p) = "." \/ Get(f, Resolve(p)).kind # "absent"
              THEN [fs |-> f, err |-> "FileExistsError"]
         ELSE IF deny = Resolve(p) THEN [fs |-> f, err |-> "PermissionError"]
         ELSE [fs |-> Put(f, Resolve(p), Dir), err |-> ""]
           : perr \in {ParentError(f, p)}})

\* Variants of makedirs: a single os.mkdir call that creates no ancestor, and
\* one that accepts whatever already exists at the path, directory or not.
makedirs_single(f, name, ok, deny) ==
    The({IF m.err # "" /\ (~ok \/ ~isdir(m.fs, name)) THEN m
         ELSE [fs |-> m.fs, err |-> ""]
           : m \in {mkdir(f, name, deny)}})
makedirs_any_leaf(up, name, ok, deny) ==
    IF up.err # "" THEN up
    ELSE The({IF m.err # "" /\ (~ok \/ ~exists(m.fs, name)) THEN m
              ELSE [fs |-> m.fs, err |-> ""]
                : m \in {mkdir(up.fs, name, deny)}})
RECURSIVE makedirs_any(_, _, _, _)
makedirs_any(f, name, ok, deny) ==
    IF Front(name) # <<>> /\ ~exists(f, Front(name))
    THEN The({makedirs_any_leaf(r, name, ok, deny)
                : r \in {makedirs_any(f, Front(name), ok, deny)}})
    ELSE makedirs_any_leaf([fs |-> f, err |-> ""], name, ok, deny)

\* os.makedirs after the ancestors were handled with result up: the final
\* os.mkdir(name), whose failure is let pass when ok and name is a directory.
makedirs_leaf(up, name, ok, deny, missing) ==
    IF up.err # "" THEN up
    ELSE IF missing /\ Last(name) = "." THEN up
    ELSE The({IF m.err # "" /\ (~ok \/ ~isdir(m.fs, name)) THEN m
              ELSE [fs |-> m.fs, err |-> ""]
                : m \in {mkdir(up.fs, name, deny)}})

\* os.makedirs(name, exist_ok=ok), as the standard library defines it: when
\* the head is missing, makedirs(head) first, a FileExistsError of which is
\* passed over.
RECURSIVE makedirs(_, _, _, _)
makedirs(f, name, ok, deny) ==
    LET head == Front(name)
        missing == head # <<>> /\ ~exists(f, head)
    IN  IF missing
        THEN The({makedirs_leaf(IF r.err = "FileExistsError"
                                THEN [r EXCEPT !.err = ""] ELSE r,
                                name, ok, deny, TRUE)
                    : r \in {makedirs(f, head, ok, deny)}})
        ELSE makedirs_leaf([fs |-> f, err |-> ""], name, ok, deny, FALSE)

\* open(p, mode) followed by write of n characters and close.
open(f, p, mode, n, deny) ==
    The({IF perr # "" THEN [fs |-> f, err |-> perr]
         ELSE IF Last(p) = "." \/ old.kind = "dir"
              THEN [fs |-> f, err |-> "IsADirectoryError"]
         ELSE IF mode = "x" /\ old.kind = "file"
              THEN [fs |-> f, err |-> "FileExistsError"]
         ELSE IF deny = Resolve(p) THEN [fs |-> f, err |-> "PermissionError"]
         ELSE [fs |-> Put(f, Resolve(p), File((IF mode = "a" THEN old.len ELSE 0) + n)),
               err |-> ""]
           : perr \in {ParentError(f, p)}, old \in {Get(f, Resolve(p))}})

\* ------------------------------------------------------------ the script
NumEntries == Len(structure)

full_folder_path_flat(k) == base_dir
full_folder_path(k) == Join(base_dir, structure[k].folder)

file_path_in_base(k, j) == Join(base_dir, <<structure[k].files[j]>>)
file_path(k, j) == Join(full_folder_path(k), <<structure[k].files[j]>>)

\* The loop position after the operation at (k, j): j = 0 is the folder's
\* makedirs, j >= 1 the j-th file of the entry.
AdvanceSkipFirst(k, j) ==
    IF j + 1 < Len(structure[k].files) THEN <<k, j + 2>> ELSE <<k + 1, 0>>
AdvanceStay(k, j) ==
    IF j = 0 THEN <<k, 1>> ELSE <<k, j>>
Advance(k, j) ==
    IF j < Len(structure[k].files) THEN <<k, j + 1>> ELSE <<k + 1, 0>>

\* --------------------------------------------- the filesystems a run meets
\* Resolved paths of the table's folders (with every ancestor) and files.
FolderPaths ==
    UNION {Prefixes(Resolve(base_dir \o structure[k].folder)) : k \in 1..NumEntries}
ListedFiles ==
    UNION {{Resolve(base_dir \o structure[k].folder \o <<structure[k].files[j]>>)
              : j \in 1..Len(structure[k].files)} : k \in 1..NumEntries}
\* Paths the table does not name: a file beside the base directory, a
\* directory and a file inside it, and a file inside a scaffolded folder.
OtherPaths == {<<"README.md">>, <<"src", "assets">>, <<"src", "useAuth.js">>,
               <<"src", "hooks", "notes.txt">>}
Universe == FolderPaths \cup ListedFiles \cup OtherPaths

SeedEntries == {Dir} \cup {File(n) : n \in 0..MaxLen}
\* A seed is a path with the entry it holds, or <<>> for no seed.
SeedChoices == {<<>>} \cup (Universe \X SeedEntries)

SeedAt(seeds, p) == {seeds[n][2] : n \in {m \in DOMAIN seeds : seeds[m] # <<>> /\ seeds[m][1] = p}}
HasBelow(seeds, p) ==
    \E m \in DOMAIN seeds : seeds[m] # <<>> /\ IsProperPrefix(p, seeds[m][1])
\* The seeds describe one filesystem: one entry per path, directories above
\* every seeded path.
Consistent(seeds) ==
    \A p \in Universe :
        /\ Cardinality(SeedAt(seeds, p)) <= 1
        /\ HasBelow(seeds, p) => SeedAt(seeds, p) \subseteq {Dir}
SeededFS(seeds) ==
    [p \in Universe |->
        IF SeedAt(seeds, p) # {} THEN CHOOSE e \in SeedAt(seeds, p) : TRUE
        ELSE IF HasBelow(seeds, p) THEN Dir
        ELSE Absent]

\* ------------------------------------------------------------------ state
VARIABLES
    fs,       \* the filesystem
    fs0,      \* the filesystem when the current run started
    run,      \* number of the current run
    entry,    \* index into structure.items() of the entry being processed
    fileIdx,  \* 0: the entry's folder is to be ensured; j: its j-th file is next
    status,   \* "running", "done" (loop exhausted) or "failed" (exception raised)
    err,      \* the exception that ended the run, "" if none
    log       \* operations the current run has completed, in order

vars == <<fs, fs0, run, entry, fileIdx, status, err, log>>

Init ==
    /\ \E seeds \in [1..MaxSeeds -> SeedChoices] :
          /\ Consistent(seeds)
          /\ fs = SeededFS(seeds)
    /\ fs0 = fs
    /\ run = 1
    /\ entry = 1
    /\ fileIdx = 0
    /\ status = "running"
    /\ err = ""
    /\ log = <<>>

\* A variant that records the exception and goes on with the next operation.
StepSwallow(r) ==
    LET nxt == Advance(entry, fileIdx) IN
    /\ fs' = r.fs
    /\ UNCHANGED <<fs0, run>>
    /\ entry' = nxt[1]
    /\ fileIdx' = nxt[2]
    /\ status' = IF nxt[1] > NumEntries THEN "done" ELSE "running"
    /\ err' = IF r.err # "" THEN r.err ELSE err
    /\ log' = IF r.err # "" THEN log ELSE Append(log, <<entry, fileIdx>>)

\* The state after the operation at (entry, fileIdx) returned r.
Step(r) ==
    /\ fs' = r.fs
    /\ UNCHANGED <<fs0, run>>
    /\ IF r.err # ""
       THEN /\ status' = "failed"
            /\ err' = r.err
            /\ UNCHANGED <<entry, fileIdx, log>>
       ELSE LET nxt == Advance(entry, fileIdx) IN
            /\ entry' = nxt[1]
            /\ fileIdx' = nxt[2]
            /\ status' = IF nxt[1] > NumEntries THEN "done" ELSE "running"
            /\ log' = Append(log, <<entry, fileIdx>>)
            /\ UNCHANGED err

\* os.makedirs(full_folder_path, exist_ok=True)
EnsureFolder ==
    /\ status = "running"
    /\ fileIdx = 0
    /\ \E deny \in {NoPath} \cup Prefixes(Resolve(full_folder_path(entry))) :
          \E r \in {makedirs(fs, full_folder_path(entry), exist_ok, deny)} : Step(r)

\* with open(file_path, 'w') as f: f.write("")
WriteFile ==
    /\ status = "running"
    /\ fileIdx >= 1
    /\ \E deny \in {NoPath, Resolve(file_path(entry, fileIdx))} :
          \E r \in {open(fs, file_path(entry, fileIdx), OpenMode, WriteLen, deny)} : Step(r)

\* The script is started again after a run that completed.
Rerun ==
    /\ status = "done"
    /\ run < MaxRuns
    /\ run' = run + 1
    /\ fs0' = fs
    /\ entry' = 1
    /\ fileIdx' = 0
    /\ status' = "running"
    /\ err' = ""
    /\ log' = <<>>
    /\ UNCHANGED fs

Next == EnsureFolder \/ WriteFile \/ Rerun

Spec == Init /\ [][Next]_vars

\* The script is sequential and never waits: a run in progress takes its next step.
FairSpec == Spec /\ WF_vars(EnsureFolder \/ WriteFile)


\* ------------------------------------------------- what the claims speak of
\* The resolved path of the k-th folder and of its j-th file, read off the table.
TargetFolder(k) == Resolve(base_dir \o structure[k].folder)
TargetFile(k, j) == Resolve(base_dir \o structure[k].folder \o <<structure[k].files[j]>>)
Entries == 1..NumEntries
FilesOf(k) == 1..Len(structure[k].files)

RECURSIVE OrderFrom(_)
OrderFrom(k) ==
    IF k > NumEntries THEN <<>>
    ELSE <<<<k, 0>>>> \o [j \in FilesOf(k) |-> <<k, j>>] \o OrderFrom(k + 1)
\* Every operation of a run, in the table's order.
FullOrder == OrderFrom(1)

InOrder == Len(log) <= Len(FullOrder) /\ log = SubSeq(FullOrder, 1, Len(log))
Logged(k, j) == \E n \in 1..Len(log) : log[n] = <<k, j>>
AllPaths == DOMAIN fs \cup DOMAIN fs0
AllFoldersExist == \A k \in Entries : Get(fs, TargetFolder(k)) = Dir
AllFilesEmpty == \A p \in ListedFiles : Get(fs, p) = File(0)
BaseAbsentOrEmpty ==
    /\ Get(fs0, base_dir).kind \in {"absent", "dir"}
    /\ \A p \in DOMAIN fs0 : IsProperPrefix(base_dir, p) => Get(fs0, p) = Absent

\* C1: after a run that completes, every file listed in the table exists at
\* join(base_dir, folder, file_name) as a regular file of zero length, whatever
\* the filesystem was before; the files of the "." folder lie directly in the
\* base directory (src/App.jsx).
C1_ListedFilesExistEmpty ==
    status = "done" =>
        /\ \A k \in Entries : \A j \in FilesOf(k) : Get(fs, TargetFile(k, j)) = File(0)
        /\ <<"src", "App.jsx">> \in ListedFiles
        /\ Get(fs, <<"src", "App.jsx">>) = File(0)
        /\ Get(fs, <<"src", ".">>) = Absent

C1_Witness ==
    /\ status = "done"
    /\ run = 1
    /\ Get(fs0, <<"src", "App.jsx">>) = File(1)
    /\ Get(fs0, <<"src", "main.jsx">>) = Absent
    /\ Get(fs, <<"src", "App.jsx">>) = File(0)

\* C2: after a run that completes, join(base_dir, folder) is a directory for
\* every folder key of the table, whether or not it existed before the run.
C2_FoldersExist ==
    status = "done" => \A k \in Entries : Get(fs, TargetFolder(k)) = Dir

C2_Witness ==
    /\ status = "done"
    /\ run = 1
    /\ Get(fs0, <<"src", "hooks">>) = Dir
    /\ Get(fs0, <<"src", "pages">>) = Absent
    /\ Get(fs, <<"src", "pages">>) = Dir

\* C3: a listed file that holds content before the run is no cause of an error
\* (writing it fails only when the environment refuses the write), and once the
\* run has written it, it exists with zero length: its content is gone.
C3_ExistingFileTruncated ==
    \A k \in Entries : \A j \in FilesOf(k) :
        (Get(fs0, TargetFile(k, j)).kind = "file" /\ Get(fs0, TargetFile(k, j)).len > 0) =>
            /\ Logged(k, j) => Get(fs, TargetFile(k, j)) = File(0)
            /\ status = "done" => Get(fs, TargetFile(k, j)) = File(0)
            /\ (status = "failed" /\ entry = k /\ fileIdx = j) => err = "PermissionError"

C3_Witness ==
    /\ run = 1
    /\ Get(fs0, <<"src", "hooks", "useAuth.js">>) = File(1)
    /\ Logged(5, 1)
    /\ Get(fs, <<"src", "hooks", "useAuth.js">>) = File(0)

\* C4: a second run in succession changes nothing: the filesystem stays what
\* the first run left (all listed directories exist, all listed files exist
\* with zero length), and the second run does not fail on what is already
\* there (it fails only when the environment refuses an operation).
C4_Idempotent ==
    run >= 2 =>
        /\ fs = fs0
        /\ AllFoldersExist
        /\ AllFilesEmpty
        /\ status = "failed" => err = "PermissionError"

C4_Witness ==
    /\ run = 2
    /\ status = "done"
    /\ log = FullOrder
    /\ fs = fs0

\* C5: ensuring a folder creates every missing ancestor: a missing ancestor is
\* never the reason the step fails, and after the step every prefix of the
\* folder's path is a directory.
C5_RecursiveCreation ==
    /\ \A k \in Entries :
          Logged(k, 0) => \A p \in Prefixes(TargetFolder(k)) : Get(fs, p) = Dir
    /\ (status = "failed" /\ fileIdx = 0) => err # "FileNotFoundError"

C5_Witness ==
    /\ run = 1
    /\ Get(fs0, <<"src">>) = Absent
    /\ log = <<<<1, 0>>>>
    /\ Get(fs, <<"src">>) = Dir
    /\ Get(fs, <<"src", "components">>) = Dir
    /\ Get(fs, <<"src", "components", "auth">>) = Dir

\* C6: a failed operation ends the run at once: an exception is raised only in
\* the state "failed", no step follows it, the failed operation is the one
\* after the completed ones in table order (nothing later was processed), and
\* what the run created before stays in place.
C6_FailurePropagates ==
    /\ [](err # "" => status = "failed")
    /\ [](status = "failed" =>
            /\ err # ""
            /\ InOrder
            /\ Len(log) < Len(FullOrder)
            /\ FullOrder[Len(log) + 1] = <<entry, fileIdx>>
            /\ \A n \in 1..Len(log) :
                  IF log[n][2] = 0
                  THEN Get(fs, TargetFolder(log[n][1])) = Dir
                  ELSE Get(fs, TargetFile(log[n][1], log[n][2])) = File(0)
            /\ \A p \in AllPaths : Get(fs0, p) # Absent => Get(fs, p) # Absent)
    /\ [][err = ""]_vars

C6_Witness ==
    /\ status = "failed"
    /\ run = 1
    /\ entry = 2
    /\ fileIdx = 0
    /\ Get(fs0, <<"src">>) = Absent
    /\ Get(fs, <<"src", "components", "auth", "ProtectedRoute.jsx">>) = File(0)
    /\ Get(fs, <<"src", "components", "camas">>) = Absent

\* Some component of the k-th folder's path is a regular file when the run starts.
Collides(k) == \E p \in Prefixes(TargetFolder(k)) : Get(fs0, p).kind = "file"

\* C7: when a component of a folder's path is a regular file before the run,
\* the run does not get past that entry and fails there in makedirs; the file
\* stays as it was, and none of the entry's files is created.
C7_CollisionFails ==
    \A k \in Entries :
        Collides(k) =>
            /\ status # "done"
            /\ entry <= k
            /\ \A j \in {0} \cup FilesOf(k) : ~Logged(k, j)
            /\ (status = "failed" /\ entry = k) =>
                  fileIdx = 0 /\ err \in {"FileExistsError", "NotADirectoryError"}
            /\ \A p \in Prefixes(TargetFolder(k)) :
                  Get(fs0, p).kind = "file" => Get(fs, p) = Get(fs0, p)
            /\ \A j \in FilesOf(k) : Get(fs, TargetFile(k, j)) = Absent

C7_Witness ==
    /\ status = "failed"
    /\ entry = 4
    /\ fileIdx = 0
    /\ err = "FileExistsError"
    /\ Get(fs0, <<"src", "firebase">>) = File(1)
    /\ Get(fs, <<"src", "firebase">>) = File(1)
    /\ Get(fs, <<"src", "components", "layout", "Navbar.jsx">>) = File(0)

\* C8: operations happen in the table's order, each folder before its files:
\* the completed operations are a prefix of the full order and the next one is
\* the one that follows; every file written so far lies in a directory.
C8_ProcessingOrder ==
    /\ InOrder
    /\ status = "running" => FullOrder[Len(log) + 1] = <<entry, fileIdx>>
    /\ \A n \in 1..Len(log) :
          log[n][2] >= 1 =>
              /\ Get(fs, TargetFolder(log[n][1])) = Dir
              /\ Get(fs, TargetFile(log[n][1], log[n][2])).kind = "file"
              /\ \A k \in 1..(log[n][1] - 1) : \A j \in FilesOf(k) :
                    \E m \in 1..(n - 1) : log[m] = <<k, j>>

C8_Witness ==
    /\ status = "running"
    /\ run = 1
    /\ entry = 2
    /\ fileIdx = 3
    /\ Get(fs0, <<"src">>) = Absent
    /\ Get(fs, <<"src", "components", "camas", "CamaForm.jsx">>) = File(0)
    /\ Get(fs, <<"src", "components", "camas", "CamaViewer.jsx">>) = Absent

\* C9: a run removes nothing and turns nothing into something else; outside
\* the listed files it only creates directories on the folders' paths; a
\* listed file it changes becomes an empty file; and a run that completes
\* from an absent or empty base directory leaves under the base directory
\* exactly the table's folders and files.
C9_Frame ==
    /\ \A p \in AllPaths :
          Get(fs0, p) # Absent => Get(fs, p).kind = Get(fs0, p).kind
    /\ \A p \in AllPaths \ ListedFiles :
          Get(fs, p) # Get(fs0, p) =>
              p \in FolderPaths /\ Get(fs0, p) = Absent /\ Get(fs, p) = Dir
    /\ \A p \in ListedFiles :
          Get(fs, p) # Get(fs0, p) => Get(fs, p) = File(0)
    /\ (status = "done" /\ BaseAbsentOrEmpty) =>
          \A p \in AllPaths :
              IsProperPrefix(base_dir, p) =>
                  (Get(fs, p) # Absent <=> p \in ListedFiles \cup FolderPaths)

C9_Witness ==
    /\ status = "done"
    /\ run = 1
    /\ BaseAbsentOrEmpty
    /\ Get(fs0, <<"src">>) = Absent
    /\ Get(fs0, <<"README.md">>) = File(1)
    /\ Get(fs, <<"README.md">>) = File(1)
    /\ Get(fs, <<"src", "hooks", "notes.txt">>) = Absent

\* C10: every run terminates, either completed with every operation of the
\* table done exactly once, in order, or failed at the first error; a failed
\* operation is not tried again.
C10_Terminates ==
    /\ (status = "running") ~> (status # "running")
    /\ [](status = "done" => log = FullOrder /\ err = "")
    /\ [](status = "failed" => err # "" /\ InOrder /\ Len(log) < Len(FullOrder))
    /\ [][status = "failed" => status' = "failed"]_vars
    /\ [][status = "running" => Len(log') + (IF status' = "failed" THEN 1 ELSE 0) = Len(log) + 1]_vars

C10_Witness ==
    /\ status = "done"
    /\ run = 1
    /\ log = FullOrder
    /\ Len(log) = 23
====
